---- MODULE Spec2Model ----
(***************************************************************************)
(* CMAESOptimizer (SimTKmath/Optimizers/src/CMAESOptimizer.cpp): the       *)
(* session controller of the CMA-ES optimizer, as a state machine.         *)
(*                                                                         *)
(* One optimizer object is constructed on one OptimizerSystem and          *)
(* optimize() is called on it a bounded number of times.  Every statement  *)
(* of optimize() that the properties below speak about is one action; the  *)
(* position inside optimize() is pc.                                       *)
(*                                                                         *)
(* Numbers are integers: coordinates and step sizes are counted in tenths  *)
(* (the default step size 0.1 is 1), objective values in hundredths.  The  *)
(* engine behind the cmaes_* calls (c-cmaes) is not part of the wrapper;   *)
(* it is modelled from the design document and kept deterministic: its     *)
(* normal deviates come from a finite-period generator whose output        *)
(* sequence per seed is arbitrary but fixed (the variable stream records   *)
(* the outputs already produced).                                          *)
(***************************************************************************)
EXTENDS Integers, Sequences, FiniteSets, TLC

VARIABLES
    sys,        \* the OptimizerSystem: n, limits, objective
    pc,         \* position of the optimizer / of optimize()
    err,        \* which check raised the fatal error ("" if none)
    opts,       \* options and settings in force for the current call
    results,    \* the in/out vector of optimize(): x0 in, x_best out
    fret,       \* value returned by optimize()
    evo,        \* cmaes_t evo
    pop,        \* double*const* pop
    funvals,    \* double* funvals
    i, j,       \* loop indices of optimize()
    file,       \* resumecmaes.dat
    allfile,    \* allcmaes.dat
    stream,     \* generator outputs produced so far, per seed and position
    calls,      \* number of optimize() calls started
    hist,       \* history: one record per optimize() call
    gh          \* history of the current call and generation

vars == <<sys, pc, err, opts, results, fret, evo, pop, funvals, i, j,
          file, allfile, stream, calls, hist, gh>>

----------------------------------------------------------------------------
(* Bounds of the model *)

\* largest maxIterations a caller sets
MaxIterBound == 2
\* period of the pseudo-random generator
Period == 3
\* the per-generation resample counter of the history saturates here
ResCap == 2

(* Program constants *)

\* smallest accepted number of parameters
MinParameters == 2
\* default step size 0.1, in tenths
DefaultStepsize == 1
\* the user seed passed on when the option is not set
DefaultSeed == 0
\* fbestever before any evaluation (larger than every objective value)
FInf == 1000000

----------------------------------------------------------------------------
(* Values *)

ClockSeeds == {1, 2}

Coords(n) == 0 .. (n - 1)
Point(n, a, b) == [k \in Coords(n) |-> IF k = 0 THEN a ELSE b]
Unit(n, k, s) == [c \in Coords(n) |-> IF c = k THEN s ELSE 0]

\* An advanced option: set or not, and its value when set.
Unset == [set |-> FALSE, val |-> 0]
Set(v) == [set |-> TRUE, val |-> v]

\* bool getAdvancedXxxOption(name, value): writes value only when set.
getAdvancedOption(o, dflt) == IF o.set THEN o.val ELSE dflt

\* std::bitset<2>(diagnosticsLevel).test(b)
BitTest(level, b) == ((level \div (IF b = 0 THEN 1 ELSE 2)) % 2) = 1

MinOf(S) == CHOOSE x \in S : \A y \in S : x <= y
MaxOf(S) == CHOOSE x \in S : \A y \in S : y <= x

----------------------------------------------------------------------------
(* The optimizer system *)

\* The sphere objective, sum of x_i^2 (in hundredths for coordinates in
\* tenths).
Sphere(n, x) ==
    LET sumsq[k \in 0 .. n] ==
            IF k = 0 THEN 0 ELSE sumsq[k - 1] + x[k - 1] * x[k - 1]
    IN  sumsq[n]

\* The objective callback: (status, f).  A "partial" objective is a host
\* callback that reports failure (status 1) left of the origin.
objectiveFunc(s, x) ==
    [status |-> IF s.objective = "partial" /\ x[0] < 0 THEN 1 ELSE 0,
     f      |-> Sphere(s.n, x)]

Systems ==
    {[n |-> 1, hasLimits |-> FALSE, lower |-> Point(1, 0, 0),
      upper |-> Point(1, 0, 0), objective |-> "sphere"]}
    \cup
    {[n |-> 2, hasLimits |-> FALSE, lower |-> Point(2, 0, 0),
      upper |-> Point(2, 0, 0), objective |-> o] : o \in {"sphere", "partial"}}
    \cup
    {[n |-> 2, hasLimits |-> TRUE, lower |-> Point(2, 0, 0),
      upper |-> Point(2, u, u), objective |-> "sphere"] : u \in {0, 1}}

\* the coordinate test of the bounds filter
OutOfLimits(x, k) == x[k] < sys.lower[k] \/ x[k] > sys.upper[k]

WithinLimits(x) == \A k \in Coords(sys.n) : ~OutOfLimits(x, k)

----------------------------------------------------------------------------
(* The engine behind the cmaes_* interface *)

\* the normal deviate the generator returns for output code k
Gauss(n, k) ==
    CASE k = 1 -> Unit(n, 0, 0)
      [] k = 2 -> Unit(n, 0, -1)
      [] OTHER -> Unit(n, n - 1, 1)

GaussCodes == 1 .. 3

\* a cmaes_t that has not been initialised
NoEvo(n) ==
    [phase |-> "unallocated", N |-> n, xmean |-> Point(n, 0, 0), sigma |-> 0,
     path |-> Point(n, 0, 0), gen |-> 0, countevals |-> 0, fbestever |-> FInf,
     xbestever |-> Point(n, 0, 0), rng |-> [seed |-> 1, pos |-> 0],
     lambda |-> 0, stopMaxIter |-> 0, stopTolFun |-> 0,
     stopMaxFunEvals |-> Unset, maxtime |-> Unset, range |-> Unset]

\* the seed the generator starts from: a user seed of 0 means the clock
EffectiveSeed(inseed, clock) == IF inseed = 0 THEN clock ELSE inseed

\* cmaes_init_para: the state from the user's x0, step size, seed, lambda
cmaes_init_para(n, xstart, stddev, inseed, lambda, clock) ==
    [phase |-> "para", N |-> n, xmean |-> xstart, sigma |-> stddev,
     path |-> Point(n, 0, 0), gen |-> 0, countevals |-> 0, fbestever |-> FInf,
     xbestever |-> xstart, rng |-> [seed |-> EffectiveSeed(inseed, clock), pos |-> 0],
     lambda |-> lambda, stopMaxIter |-> 0, stopTolFun |-> 0,
     stopMaxFunEvals |-> Unset, maxtime |-> Unset, range |-> Unset]

\* cmaes_init_final
cmaes_init_final(e) == [e EXCEPT !.phase = "ready"]

\* cmaes_TestForTermination: the set of stopping reasons that fire
cmaes_TestForTermination(e) ==
    (IF e.gen >= e.stopMaxIter THEN {"MaxIter"} ELSE {})
    \cup (IF e.stopMaxFunEvals.set /\ e.countevals >= e.stopMaxFunEvals.val
          THEN {"MaxFunEvals"} ELSE {})
    \cup (IF e.range.set /\ e.range.val < e.stopTolFun THEN {"TolFun"} ELSE {})

\* positions of the generator that `count` draws starting at pos read
Drawn(pos, count) == {(pos + t) % Period : t \in 0 .. (count - 1)}

\* the output sequences of seed s that agree with what was produced so far
\* and fix the outputs at the positions in U
Completions(s, U) ==
    {c \in [0 .. (Period - 1) -> 0 .. 3] :
        \A p \in 0 .. (Period - 1) :
            IF p \in U
            THEN c[p] # 0 /\ (stream[s][p] # 0 => c[p] = stream[s][p])
            ELSE c[p] = stream[s][p]}

\* x = m + sigma * z for the deviate at generator position p
Offspring(e, c, p) ==
    [k \in Coords(e.N) |-> e.xmean[k] + e.sigma * Gauss(e.N, c[p % Period])[k]]

\* the first index holding the smallest fitness
BestIndex(e, fv) ==
    MinOf({a \in 0 .. (e.lambda - 1) :
              \A b \in 0 .. (e.lambda - 1) : fv[a] <= fv[b]})

\* cmaes_UpdateDistribution: recombination on the best-ranked offspring,
\* evolution path, counters, best-ever record
cmaes_UpdateDistribution(e, pp, fv) ==
    LET b == BestIndex(e, fv)
        fs == {fv[a] : a \in 0 .. (e.lambda - 1)}
    IN  [e EXCEPT
            !.xmean = pp[b],
            !.path = [k \in Coords(e.N) |-> pp[b][k] - e.xmean[k]],
            !.gen = e.gen + 1,
            !.countevals = e.countevals + e.lambda,
            !.fbestever = IF fv[b] < e.fbestever THEN fv[b] ELSE e.fbestever,
            !.xbestever = IF fv[b] < e.fbestever THEN pp[b] ELSE e.xbestever,
            !.range = Set(MaxOf(fs) - MinOf(fs))]

NoFile(n) ==
    [present |-> FALSE, N |-> n, gen |-> 0, countevals |-> 0, sigma |-> 0,
     xmean |-> Point(n, 0, 0), path |-> Point(n, 0, 0),
     rng |-> [seed |-> 1, pos |-> 0],
     fbestever |-> FInf, xbestever |-> Point(n, 0, 0), lineage |-> {},
     writer |-> 0,
     root |-> [seed |-> 0, x0 |-> Point(n, 0, 0), sigma |-> 0, lambda |-> 0]]

\* cmaes_WriteToFile(evo, "resume", ...): the snapshot of the distribution
\* state (lineage, writer and root are history, not data of the file)
cmaes_WriteToFile(e, g, w) ==
    [present |-> TRUE, N |-> e.N, gen |-> e.gen, countevals |-> e.countevals,
     sigma |-> e.sigma, xmean |-> e.xmean, path |-> e.path, rng |-> e.rng,
     fbestever |-> e.fbestever, xbestever |-> e.xbestever,
     lineage |-> g.seen, writer |-> w, root |-> g.root]

\* cmaes_resume_distribution: the current state replaced by the snapshot
cmaes_resume_distribution(e, f) ==
    [e EXCEPT !.gen = f.gen, !.countevals = f.countevals, !.sigma = f.sigma,
              !.xmean = f.xmean, !.path = f.path, !.rng = f.rng,
              !.fbestever = f.fbestever, !.xbestever = f.xbestever]

----------------------------------------------------------------------------
(* Options and settings of one optimize() call *)

OptionSpace(x0s, lambdas, sigmas, seeds, iters, tols, fevals, resumes, diags) ==
    {[x0 |-> x, lambda |-> l, sigma |-> sg, seed |-> sd, maxIterations |-> it,
      convergenceTolerance |-> tl, stopMaxFunEvals |-> fe, maxtime |-> Unset,
      resume |-> r, diagnosticsLevel |-> d] :
        x \in x0s, l \in lambdas, sg \in sigmas, sd \in seeds, it \in iters,
        tl \in tols, fe \in fevals, r \in resumes, d \in diags}

NoOpts(n) ==
    [x0 |-> Point(n, 0, 0), lambda |-> Unset, sigma |-> Unset, seed |-> Unset,
     maxIterations |-> 0, convergenceTolerance |-> 0, stopMaxFunEvals |-> Unset,
     maxtime |-> Unset, resume |-> FALSE, diagnosticsLevel |-> 0]

\* history of one call
NoGhost(n) ==
    [samples |-> 0, evals |-> 0, updates |-> 0, nres |-> 0, tested |-> FALSE,
     statusFailed |-> FALSE, seen |-> {}, traj |-> {}, reslog |-> {},
     resumed |-> FALSE, from |-> 0, filtered |-> {}, evaluated |-> {},
     startGen |-> 0, startEvals |-> 0,
     root |-> [seed |-> 0, x0 |-> Point(n, 0, 0), sigma |-> 0, lambda |-> 0]]

TrajEntry(e) ==
    [g |-> e.gen, m |-> e.xmean, sigma |-> e.sigma, path |-> e.path,
     fbest |-> e.fbestever]

\* the record a call leaves in hist
RunRecord(o, e, g, done, x, f) ==
    [opts |-> o, lambda |-> e.lambda, resumed |-> g.resumed, from |-> g.from,
     root |-> g.root, startGen |-> g.startGen, traj |-> g.traj,
     reslog |-> g.reslog, done |-> done, x |-> x, f |-> f]

----------------------------------------------------------------------------
(* CMAESOptimizer *)

\* CMAESOptimizer::CMAESOptimizer: SimTK_VALUECHECK_ALWAYS(2, n, INT_MAX)
ConstructorAccepts(n) == MinParameters <= n

\* as checkInitialPointIsFeasible, with the upper limit left untested
checkInitialPointIsFeasible_LowerOnly(x) ==
    sys.hasLimits => \A k \in Coords(sys.n) : sys.lower[k] <= x[k]

\* checkInitialPointIsFeasible: no SimTK_APIARGCHECK4_ALWAYS fails
checkInitialPointIsFeasible(x) ==
    sys.hasLimits =>
        \A k \in Coords(sys.n) : sys.lower[k] <= x[k] /\ x[k] <= sys.upper[k]

\* int(3 * std::log((double) n)) for the dimensions of the model
Int3Log(n) == CASE n = 1 -> 0 [] n = 2 -> 2 [] n = 3 -> 3 [] OTHER -> 4

\* init: numsamples
NumSamples(o, n) ==
    LET numsamples == getAdvancedOption(o.lambda, 0)
    IN  IF numsamples = 0 THEN 4 + Int3Log(n) ELSE numsamples

\* init: stepsize
Stepsize(o) ==
    LET stepsize == getAdvancedOption(o.sigma, 0)
    IN  IF stepsize = 0 THEN DefaultStepsize ELSE stepsize

\* init: SimTK_VALUECHECK_NONNEG_ALWAYS(seed) passes
SeedAccepted(o) == o.seed.set => o.seed.val >= 0

\* processSettingsAfterCMAESInit: SimTK_VALUECHECK_NONNEG_ALWAYS passes
MaxFunEvalsAccepted(o) == o.stopMaxFunEvals.set => o.stopMaxFunEvals.val >= 0

\* as processSettingsAfterCMAESInit, with stopMaxIter taken from the
\* convergence tolerance
processSettings_WrongField(e, o) ==
    [e EXCEPT !.stopMaxIter = o.convergenceTolerance,
              !.stopTolFun = o.convergenceTolerance,
              !.stopMaxFunEvals = IF o.stopMaxFunEvals.set THEN o.stopMaxFunEvals
                                  ELSE e.stopMaxFunEvals,
              !.maxtime = IF o.maxtime.set THEN o.maxtime ELSE e.maxtime]

\* processSettingsAfterCMAESInit: the settings written into evo.sp
processSettingsAfterCMAESInit(e, o) ==
    [e EXCEPT !.stopMaxIter = o.maxIterations,
              !.stopTolFun = o.convergenceTolerance,
              !.stopMaxFunEvals = IF o.stopMaxFunEvals.set THEN o.stopMaxFunEvals
                                  ELSE e.stopMaxFunEvals,
              !.maxtime = IF o.maxtime.set THEN o.maxtime ELSE e.maxtime]

\* as init, with the seed option read but the default seed passed on
init_SeedNotPassed(o, x, clock) ==
    cmaes_init_final(
        processSettingsAfterCMAESInit(
            cmaes_init_para(sys.n, x, Stepsize(o), DefaultSeed,
                            NumSamples(o, sys.n), clock), o))

\* init: the cmaes_t handed back by cmaes_init_final
init(o, x, clock) ==
    cmaes_init_final(
        processSettingsAfterCMAESInit(
            cmaes_init_para(sys.n, x, Stepsize(o),
                            getAdvancedOption(o.seed, DefaultSeed),
                            NumSamples(o, sys.n), clock), o))

\* as ResumeState, with the snapshot read but the state left as initialised
ResumeState_Dropped(e, o, f) == e

\* if (isresume) cmaes_resume_distribution(&evo, "resumecmaes.dat")
ResumeState(e, o, f) ==
    IF o.resume THEN cmaes_resume_distribution(e, f) ELSE e

\* while (!cmaes_TestForTermination(&evo))
LoopContinues(e) == cmaes_TestForTermination(e) = {}

\* for (i = 0; i < cmaes_Get(&evo, "lambda"); i++)
Lambda(e) == e.lambda

\* as ResampleNeeded, with the upper limit left untested
ResampleNeeded_LowerOnly(x, k) == x[k] < sys.lower[k]

\* the test that sends pop[i] back to the sampler
ResampleNeeded(x, k) == x[k] < sys.lower[k] \/ x[k] > sys.upper[k]

\* as AfterEvaluate, with the loop ending one offspring early
AfterEvaluate_OneShort(e, ix) ==
    IF ix + 1 < Lambda(e) - 1 THEN "evaluate" ELSE "adapt"

\* optimize: what follows the evaluation of pop[ix]: the next offspring, or
\* the update once all lambda are evaluated
AfterEvaluate(e, ix) == IF ix + 1 < Lambda(e) THEN "evaluate" ELSE "adapt"

\* optimize: what follows a failing status of the objective callback (the
\* return value of objectiveFuncWrapper is not looked at)
StatusAborts(status) == FALSE

\* as WrapUp, with the current mean handed back instead of xbestever
WrapUp_Mean(e) == [x |-> e.xmean, f |-> e.fbestever]

\* optimize: the values handed back: results and the returned f
WrapUp(e) == [x |-> e.xbestever, f |-> e.fbestever]

\* SimTK_CMAES_FILE(cmaes_WriteToFile(&evo, "resume", "resumecmaes.dat"))
FileAfterWrapUp(e, o, g, w, old) ==
    IF BitTest(o.diagnosticsLevel, 1) THEN cmaes_WriteToFile(e, g, w) ELSE old

\* allcmaes.dat before it is first written
NoAllFile(n) ==
    [present |-> FALSE, gen |-> 0, countevals |-> 0, xmean |-> Point(n, 0, 0),
     fbestever |-> FInf, xbestever |-> Point(n, 0, 0)]

\* SimTK_CMAES_FILE(cmaes_WriteToFile(&evo, "all", "allcmaes.dat"))
AllFileAfterWrapUp(e, o, old) ==
    IF BitTest(o.diagnosticsLevel, 1)
    THEN [present |-> TRUE, gen |-> e.gen, countevals |-> e.countevals,
          xmean |-> e.xmean, fbestever |-> e.fbestever,
          xbestever |-> e.xbestever]
    ELSE old

----------------------------------------------------------------------------
(* Actions *)

NoPop == [a \in {} |-> 0]

Raise(e) ==
    /\ pc' = "failed"
    /\ err' = e
    /\ hist' = Append(hist, RunRecord(opts, evo, gh, FALSE, results, fret))

\* new CMAESOptimizer(sys)
Construct ==
    /\ pc = "new"
    /\ IF ConstructorAccepts(sys.n)
       THEN pc' = "idle" /\ err' = err
       ELSE pc' = "rejected" /\ err' = "nParameters"
    /\ UNCHANGED <<sys, opts, results, fret, evo, pop, funvals, i, j, file, allfile,
                   stream, calls, hist, gh>>

\* the caller sets options and calls optimize(results)
BeginOptimize(space, maxCalls) ==
    /\ pc \in {"idle", "returned", "failed"}
    /\ calls < maxCalls
    /\ \E o \in space :
        /\ opts' = o
        /\ results' = o.x0
    /\ pc' = "check"
    /\ err' = ""
    /\ fret' = 0
    /\ evo' = NoEvo(sys.n)
    /\ pop' = NoPop
    /\ funvals' = NoPop
    /\ i' = 0
    /\ j' = 0
    /\ calls' = calls + 1
    /\ gh' = NoGhost(sys.n)
    /\ UNCHANGED <<sys, file, allfile, stream, hist>>

\* checkInitialPointIsFeasible(results)
CheckInitialPoint ==
    /\ pc = "check"
    /\ IF checkInitialPointIsFeasible(results)
       THEN pc' = "init" /\ UNCHANGED <<err, hist>>
       ELSE Raise("InitialPoint")
    /\ UNCHANGED <<sys, opts, results, fret, evo, pop, funvals, i, j, file, allfile,
                   stream, calls, gh>>

\* double* funvals = init(evo, results)
Initialize ==
    /\ pc = "init"
    /\ IF ~SeedAccepted(opts)
       THEN Raise("seed") /\ UNCHANGED <<evo, funvals, gh>>
       ELSE \E clock \in ClockSeeds :
            LET e == init(opts, results, clock) IN
            IF ~MaxFunEvalsAccepted(opts)
            THEN /\ Raise("stopMaxFunEvals")
                 /\ evo' = [e EXCEPT !.phase = "para"]
                 /\ UNCHANGED <<funvals, gh>>
            ELSE /\ evo' = e
                 /\ funvals' = [a \in 0 .. (e.lambda - 1) |-> 0]
                 /\ gh' = [gh EXCEPT !.root =
                              [seed |-> e.rng.seed, x0 |-> results,
                               sigma |-> e.sigma, lambda |-> e.lambda]]
                 /\ pc' = "resume"
                 /\ UNCHANGED <<err, hist>>
    /\ UNCHANGED <<sys, opts, results, fret, pop, i, j, file, allfile, stream, calls>>

\* the resume step of optimize(); a snapshot that cannot be read is fatal
Resume ==
    /\ pc = "resume"
    /\ IF opts.resume
       THEN IF file.present /\ file.N = evo.N
            THEN LET e == ResumeState(evo, opts, file) IN
                 /\ evo' = e
                 /\ gh' = [gh EXCEPT !.resumed = TRUE, !.from = file.writer,
                                     !.seen = file.lineage, !.root = file.root,
                                     !.startGen = e.gen,
                                     !.startEvals = e.countevals,
                                     !.traj = {TrajEntry(e)}]
                 /\ pc' = "test"
                 /\ UNCHANGED <<err, hist>>
            ELSE Raise("resume") /\ UNCHANGED <<evo, gh>>
       ELSE /\ gh' = [gh EXCEPT !.traj = {TrajEntry(evo)}]
            /\ pc' = "test"
            /\ UNCHANGED <<evo, err, hist>>
    /\ UNCHANGED <<sys, opts, results, fret, pop, funvals, i, j, file, allfile, stream,
                   calls>>

\* while (!cmaes_TestForTermination(&evo))
TestForTermination ==
    /\ pc = "test"
    /\ pc' = IF LoopContinues(evo) THEN "sample" ELSE "wrapup"
    /\ gh' = [gh EXCEPT !.tested = TRUE]
    /\ UNCHANGED <<sys, err, opts, results, fret, evo, pop, funvals, i, j, file, allfile,
                   stream, calls, hist>>

\* pop = cmaes_SamplePopulation(&evo)
SamplePopulation ==
    /\ pc = "sample"
    /\ \E c \in Completions(evo.rng.seed, Drawn(evo.rng.pos, Lambda(evo))) :
        /\ stream' = [stream EXCEPT ![evo.rng.seed] = c]
        /\ pop' = [a \in 0 .. (Lambda(evo) - 1) |->
                      Offspring(evo, c, evo.rng.pos + a)]
    /\ evo' = [evo EXCEPT !.rng.pos = (evo.rng.pos + Lambda(evo)) % Period]
    /\ pc' = IF sys.hasLimits THEN "filter" ELSE "evaluate"
    /\ i' = 0
    /\ j' = 0
    /\ gh' = [gh EXCEPT !.samples = gh.samples + 1, !.nres = 0,
                        !.filtered = {}, !.evaluated = {}]
    /\ UNCHANGED <<sys, err, opts, results, fret, funvals, file, allfile, calls, hist>>

\* one test of the bounds filter: coordinate j of pop[i]
FilterPopulation ==
    /\ pc = "filter"
    /\ IF j < sys.n
       THEN IF ResampleNeeded(pop[i], j)
            THEN \* feasible = false; pop = cmaes_ReSampleSingle(&evo, i); break
                 /\ \E c \in Completions(evo.rng.seed, {evo.rng.pos}) :
                     /\ stream' = [stream EXCEPT ![evo.rng.seed] = c]
                     /\ pop' = [pop EXCEPT ![i] = Offspring(evo, c, evo.rng.pos)]
                 /\ evo' = [evo EXCEPT !.rng.pos = (evo.rng.pos + 1) % Period]
                 /\ j' = 0
                 /\ gh' = [gh EXCEPT !.nres =
                              IF gh.nres < ResCap THEN gh.nres + 1 ELSE gh.nres]
                 /\ UNCHANGED <<pc, i>>
            ELSE /\ j' = j + 1
                 /\ UNCHANGED <<pc, i, pop, evo, stream, gh>>
       ELSE \* the coordinate loop ended with feasible = true
            /\ gh' = [gh EXCEPT !.filtered = gh.filtered \cup {i}]
            /\ j' = 0
            /\ IF i + 1 < Lambda(evo)
               THEN i' = i + 1 /\ pc' = pc
               ELSE i' = 0 /\ pc' = "evaluate"
            /\ UNCHANGED <<pop, evo, stream>>
    /\ UNCHANGED <<sys, err, opts, results, fret, funvals, file, allfile, calls, hist>>

\* objectiveFuncWrapper(n, pop[i], true, &funvals[i], this)
Evaluate ==
    /\ pc = "evaluate"
    /\ LET r == objectiveFunc(sys, pop[i])
           g == [gh EXCEPT !.evals = gh.evals + 1,
                           !.evaluated = gh.evaluated \cup {i},
                           !.seen = gh.seen \cup {[x |-> pop[i], f |-> r.f]},
                           !.statusFailed = gh.statusFailed \/ r.status # 0]
       IN  /\ funvals' = [funvals EXCEPT ![i] = r.f]
           /\ gh' = g
           /\ IF r.status # 0 /\ StatusAborts(r.status)
              THEN /\ pc' = "failed"
                   /\ err' = "objective"
                   /\ hist' = Append(hist,
                                RunRecord(opts, evo, g, FALSE, results, fret))
                   /\ i' = i
              ELSE /\ pc' = AfterEvaluate(evo, i)
                   /\ i' = IF AfterEvaluate(evo, i) = "evaluate" THEN i + 1 ELSE 0
                   /\ UNCHANGED <<err, hist>>
    /\ UNCHANGED <<sys, opts, results, fret, evo, pop, j, file, allfile, stream, calls>>

\* cmaes_UpdateDistribution(&evo, funvals)
UpdateDistribution ==
    /\ pc = "adapt"
    /\ LET e == cmaes_UpdateDistribution(evo, pop, funvals) IN
        /\ evo' = e
        /\ gh' = [gh EXCEPT !.updates = gh.updates + 1, !.tested = FALSE,
                            !.traj = gh.traj \cup {TrajEntry(e)},
                            !.reslog = gh.reslog \cup
                                         {[g |-> e.gen, n |-> gh.nres]}]
    /\ pc' = "test"
    /\ UNCHANGED <<sys, err, opts, results, fret, pop, funvals, i, j, file, allfile,
                   stream, calls, hist>>

\* after the loop: results, f, the dump files, cmaes_exit, return f
Finish ==
    /\ pc = "wrapup"
    /\ results' = WrapUp(evo).x
    /\ fret' = WrapUp(evo).f
    /\ file' = FileAfterWrapUp(evo, opts, gh, calls, file)
    /\ allfile' = AllFileAfterWrapUp(evo, opts, allfile)
    /\ evo' = [evo EXCEPT !.phase = "freed"]
    /\ pc' = "returned"
    /\ hist' = Append(hist,
                  RunRecord(opts, evo, gh, TRUE, WrapUp(evo).x, WrapUp(evo).f))
    /\ UNCHANGED <<sys, err, opts, pop, funvals, i, j, stream, calls, gh>>

Run ==
    \/ Construct
    \/ CheckInitialPoint
    \/ Initialize
    \/ Resume
    \/ TestForTermination
    \/ SamplePopulation
    \/ FilterPopulation
    \/ Evaluate
    \/ UpdateDistribution
    \/ Finish

----------------------------------------------------------------------------
(* Specifications *)

InitWith(systems) ==
    /\ sys \in systems
    /\ pc = "new"
    /\ err = ""
    /\ opts = NoOpts(sys.n)
    /\ results = Point(sys.n, 0, 0)
    /\ fret = 0
    /\ evo = NoEvo(sys.n)
    /\ pop = NoPop
    /\ funvals = NoPop
    /\ i = 0
    /\ j = 0
    /\ file = NoFile(sys.n)
    /\ allfile = NoAllFile(sys.n)
    /\ stream = [s \in ClockSeeds |-> [p \in 0 .. (Period - 1) |-> 0]]
    /\ calls = 0
    /\ hist = << >>
    /\ gh = NoGhost(sys.n)

X0s == {Point(sys.n, 0, 0), Point(sys.n, 1, 1)}

\* one call on a new optimizer, every option at its interesting values
Options ==
    OptionSpace(X0s, {Unset, Set(2)}, {Unset, Set(0), Set(-1)},
                {Unset, Set(-1), Set(1)}, 0 .. MaxIterBound, {0},
                {Unset, Set(-1)}, {FALSE, TRUE}, {1, 2})

Init == InitWith(Systems)

Next == BeginOptimize(Options, 1) \/ Run

Spec == Init /\ [][Next]_vars

\* the systems on which several calls are followed
CallSystems == {s \in Systems : s.n = 2 /\ s.objective = "sphere"}

\* two calls in a row with the seed set or left to its default
SeedOptions ==
    OptionSpace({Point(sys.n, 1, 1)}, {Set(2)}, {Unset}, {Unset, Set(1)},
                {1, MaxIterBound}, {0}, {Unset}, {FALSE}, {1})

NextSeeds == BeginOptimize(SeedOptions, 2) \/ Run

SpecSeeds == InitWith(CallSystems) /\ [][NextSeeds]_vars

\* two calls in a row with the population size, the tolerance and the
\* evaluation budget set
BudgetOptions ==
    OptionSpace({Point(sys.n, 1, 1)}, {Set(2), Set(3)}, {Unset}, {Set(1)},
                {1, MaxIterBound}, {0, 2}, {Unset, Set(4)}, {FALSE, TRUE}, {2})

NextBudget == BeginOptimize(BudgetOptions, 2) \/ Run

SpecBudget == InitWith(CallSystems) /\ [][NextBudget]_vars

\* three calls in a row: stop, resume, and an uninterrupted run
ResumeOptions ==
    OptionSpace({Point(sys.n, 1, 1)}, {Set(2)}, {Unset}, {Set(1)},
                {1, MaxIterBound}, {0}, {Unset}, {FALSE, TRUE}, {1, 2})

NextResume == BeginOptimize(ResumeOptions, 3) \/ Run

SpecResume == InitWith(CallSystems) /\ [][NextResume]_vars

----------------------------------------------------------------------------
(* Properties of one call (Spec) *)

Offsprings == 0 .. (Lambda(evo) - 1)

InCall == pc \notin {"new", "rejected", "idle"}

\* C1: with box limits, every offspring that is evaluated, and every
\* offspring of a population handed to cmaes_UpdateDistribution, lies within
\* [lowerLimits, upperLimits] in every coordinate.
C1_OffspringWithinLimits ==
    sys.hasLimits =>
        /\ pc \in {"evaluate", "adapt"} =>
               \A a \in Offsprings : WithinLimits(pop[a])
        /\ \A r \in gh.seen : WithinLimits(r.x)

\* a population that needed resampling is about to be used for adaptation
C1_Witness ==
    /\ sys.hasLimits
    /\ pc = "adapt"
    /\ gh.nres > 0
    /\ gh.evals >= Lambda(evo)

X0Infeasible ==
    /\ sys.hasLimits
    /\ \E k \in Coords(sys.n) : OutOfLimits(opts.x0, k)

\* C2: an initial point outside the limits is fatal before the CMA-ES state
\* is initialised, before any sampling and before any objective evaluation;
\* an initial point within the limits (or a system without limits) never
\* fails this check.
C2_InfeasibleInitialPointIsFatal ==
    (InCall /\ pc # "check") =>
        /\ X0Infeasible =>
               /\ pc = "failed"
               /\ err = "InitialPoint"
               /\ evo.phase = "unallocated"
               /\ gh.samples = 0
               /\ gh.evals = 0
        /\ ~X0Infeasible => err # "InitialPoint"

\* the call failed on its initial point
C2_Witness ==
    /\ pc = "failed"
    /\ err = "InitialPoint"
    /\ X0Infeasible
    /\ calls = 1

\* C3: a non-zero status of the objective callback aborts the run with a
\* fatal error: nothing more is evaluated, the distribution is not updated
\* and no best value is returned.
C3_ObjectiveFailureAborts ==
    gh.statusFailed => (pc = "failed" /\ err = "objective")

BadConfiguration ==
    \/ sys.n < MinParameters
    \/ InCall /\ opts.seed.set /\ opts.seed.val < 0
    \/ InCall /\ opts.sigma.set /\ opts.sigma.val <= 0

\* C8: fewer than 2 parameters, a negative seed and a non-positive sigma are
\* each fatal at initialisation: the optimizer never gets past init with
\* such a configuration, and samples and evaluates nothing.
C8_InvalidConfigurationIsFatal ==
    BadConfiguration =>
        /\ pc \in {"new", "rejected", "check", "init", "failed"}
        /\ gh.samples = 0
        /\ gh.evals = 0

\* C9: in every generation the bounds filter has passed all lambda
\* offspring before the first evaluation, evaluations run in order, the
\* distribution is updated once per generation and only when all lambda
\* fitness values of the generation are written, and the termination test
\* has run between an update and the next sampling.
C9_GenerationOrder ==
    /\ (pc = "evaluate" /\ sys.hasLimits) => gh.filtered = Offsprings
    /\ pc = "filter" => (gh.evaluated = {} /\ gh.filtered = 0 .. (i - 1))
    /\ pc = "evaluate" => gh.evaluated = 0 .. (i - 1)
    /\ pc = "adapt" => gh.evaluated = Offsprings
    /\ pc \in {"filter", "evaluate", "adapt"} => gh.samples = gh.updates + 1
    /\ pc \in {"test", "sample", "wrapup", "returned"} =>
           gh.samples = gh.updates
    /\ gh.evals = Cardinality(gh.evaluated) +
                  (IF pc \in {"filter", "evaluate", "adapt"}
                   THEN gh.updates ELSE gh.updates - 1) * Lambda(evo)
       \/ gh.samples = 0
    /\ pc = "sample" => gh.tested

\* the second generation of a bounded run is about to be adapted
C9_Witness ==
    /\ pc = "adapt"
    /\ sys.hasLimits
    /\ gh.updates >= 1
    /\ gh.nres > 0

\* one call on a system with box limits, the program never pausing
LiveSystems == {s \in Systems : s.hasLimits}

LiveOptions ==
    OptionSpace({Point(sys.n, 0, 0)}, {Set(2)}, {Unset}, {Set(1)},
                {1, MaxIterBound}, {0}, {Unset}, {FALSE}, {1})

NextLive == BeginOptimize(LiveOptions, 1) \/ Run

SpecLive == InitWith(LiveSystems) /\ [][NextLive]_vars /\ WF_vars(NextLive)

----------------------------------------------------------------------------
(* Properties of several calls *)

\* the calls so far, the one in progress included
AllRuns ==
    IF InCall /\ pc \notin {"returned", "failed"}
    THEN Append(hist, RunRecord(opts, evo, gh, FALSE, results, fret))
    ELSE hist

RunIds == 1 .. Len(AllRuns)

Fresh(r) == ~r.resumed /\ r.traj # {}

SameStart(r1, r2) ==
    /\ r1.opts.seed = r2.opts.seed
    /\ r1.opts.x0 = r2.opts.x0
    /\ r1.opts.sigma = r2.opts.sigma
    /\ r1.opts.lambda = r2.opts.lambda

\* equal (m, sigma, path, f_best) at every generation both runs reached
SameTrajectory(r1, r2) ==
    \A e1 \in r1.traj, e2 \in r2.traj : e1.g = e2.g => e1 = e2

SameResamples(r1, r2) ==
    \A e1 \in r1.reslog, e2 \in r2.reslog : e1.g = e2.g => e1 = e2

SameOutcome(r1, r2) ==
    (r1.done /\ r2.done /\ r1.opts = r2.opts) => (r1.x = r2.x /\ r1.f = r2.f)

Agree(r1, r2) ==
    SameTrajectory(r1, r2) /\ SameResamples(r1, r2) /\ SameOutcome(r1, r2)

\* C6, as claimed: two new runs with the same accepted seed (the default 0
\* included), x0, sigma and lambda have the same trajectory of
\* (m, sigma, f_best), the same resamples and the same result.
C6_DeterministicForEverySeed ==
    \A a \in RunIds, b \in RunIds :
        (Fresh(AllRuns[a]) /\ Fresh(AllRuns[b])
            /\ SameStart(AllRuns[a], AllRuns[b]))
        => Agree(AllRuns[a], AllRuns[b])

\* C6, amended: two new runs with the same positive seed, x0, sigma and
\* lambda have the same trajectory of (m, sigma, f_best), the same resamples
\* and, with the same stopping settings, the same result.
C6_DeterministicForPositiveSeed ==
    \A a \in RunIds, b \in RunIds :
        (Fresh(AllRuns[a]) /\ Fresh(AllRuns[b])
            /\ SameStart(AllRuns[a], AllRuns[b])
            /\ AllRuns[a].opts.seed.set /\ AllRuns[a].opts.seed.val > 0)
        => Agree(AllRuns[a], AllRuns[b])

\* two finished runs from the same positive seed, each of two generations
C6_Witness ==
    /\ Len(hist) = 2
    /\ hist[1].done /\ hist[2].done
    /\ hist[1].opts = hist[2].opts
    /\ hist[1].opts.seed.set
    /\ \E e \in hist[2].traj : e.g = 2
    /\ \E e \in hist[2].reslog : e.n > 0

LastGen(r) == MaxOf({e.g : e \in r.traj})

\* C7: a run resumed from the snapshot a stopped run wrote starts at the
\* generation that run stopped at, in its state, and from there on has the
\* (m, sigma, path, f_best) of an uninterrupted run at every generation.
C7_ResumeRoundTrip ==
    \A b \in RunIds :
        AllRuns[b].resumed =>
            /\ AllRuns[b].startGen = LastGen(AllRuns[AllRuns[b].from])
            /\ SameTrajectory(AllRuns[b], AllRuns[AllRuns[b].from])
            /\ \A c \in RunIds :
                   (Fresh(AllRuns[c]) /\ AllRuns[c].root = AllRuns[b].root
                       /\ AllRuns[c].lambda = AllRuns[b].lambda)
                   => SameTrajectory(AllRuns[b], AllRuns[c])

\* stopped after generation 1, resumed to generation 2, and an
\* uninterrupted run of two generations
C7_Witness ==
    \E b \in 1 .. Len(hist), c \in 1 .. Len(hist) :
        /\ hist[b].resumed /\ hist[b].done
        /\ hist[b].startGen = 1
        /\ Fresh(hist[c]) /\ hist[c].done /\ hist[c].root = hist[b].root
        /\ \E e \in hist[b].traj : e.g = 2
        /\ \E e \in hist[c].traj : e.g = 2

Fitnesses == {r.f : r \in gh.seen}

\* C4: optimize() returns the smallest fitness of all offspring evaluated
\* in the run (the generations before a resumed snapshot included) and, in
\* results, an offspring that attained it; f_best never increases from one
\* generation to the next.
C4_ReturnsBestEver ==
    /\ (pc = "returned" /\ gh.seen # {}) =>
           /\ fret = MinOf(Fitnesses)
           /\ [x |-> results, f |-> fret] \in gh.seen
    /\ \A e1 \in gh.traj, e2 \in gh.traj :
           e1.g <= e2.g => e2.fbest <= e1.fbest
    /\ (InCall /\ evo.phase = "ready" /\ gh.seen # {} /\ pc # "adapt"
            /\ gh.evaluated \in {{}, Offsprings}) =>
           evo.fbestever = MinOf(Fitnesses)

\* a returned run whose best value improved after the first generation and
\* whose last mean is not the best point
C4_Witness ==
    /\ pc = "returned"
    /\ \E e1 \in gh.traj, e2 \in gh.traj :
           e1.g < e2.g /\ e2.fbest < e1.fbest /\ e1.fbest < FInf
    /\ gh.updates > 0

Generating == pc \in {"sample", "filter", "evaluate", "adapt"}

C5_LoopAndCounters ==
    (InCall /\ evo.phase = "ready" /\ pc # "resume") =>
        /\ evo.stopMaxIter = opts.maxIterations
        /\ Generating =>
               /\ evo.gen < evo.stopMaxIter
               /\ evo.stopMaxFunEvals.set =>
                      evo.countevals < evo.stopMaxFunEvals.val
        /\ pc = "wrapup" => cmaes_TestForTermination(evo) # {}
        /\ evo.gen = gh.startGen + gh.updates
        /\ gh.updates <= opts.maxIterations

\* C5, as claimed: a generation starts only when no stopping reason fires
\* (never with g >= stopMaxIter = maxIterations or nfe >= stopMaxFunEvals),
\* g grows by 1 per completed generation and nfe = lambda * g, so at most
\* stopMaxIter generations complete.
C5_CountersAsClaimed ==
    /\ C5_LoopAndCounters
    /\ (InCall /\ evo.phase = "ready" /\ pc # "resume") =>
           evo.countevals = evo.lambda * evo.gen

\* C5, amended: as claimed, with nfe growing by lambda per completed
\* generation from its value at the start of the call: nfe = lambda * g in a
\* run that was not resumed, and the snapshot's nfe plus lambda per
\* generation in a resumed one.
C5_CountersFromStart ==
    /\ C5_LoopAndCounters
    /\ (InCall /\ evo.phase = "ready" /\ pc # "resume") =>
           /\ evo.countevals = gh.startEvals + evo.lambda * gh.updates
           /\ ~gh.resumed => evo.countevals = evo.lambda * evo.gen

\* a resumed run completed a generation in which points were resampled
C5_Witness ==
    /\ pc = "test"
    /\ gh.resumed
    /\ gh.updates >= 1
    /\ \E e \in gh.reslog : e.n > 0

\* C10: a run on a system with box limits and a finite stopMaxIter always
\* comes to an end, whatever the bounds filter resamples.
C10_BoundedRunTerminates ==
    [](((pc = "check") /\ sys.hasLimits) => <>(pc \in {"returned", "failed"}))

====
